---- MODULE Spec2Model ----
(***************************************************************************)
(* mea-libris: the OAuth connect / callback / disconnect handlers of       *)
(* main.go, the cookie-backed session they read and write, and the         *)
(* app.Handler wrapper that turns an *app.Error into an HTTP response.     *)
(*                                                                         *)
(* A Go string is modelled as a sequence of text fragments whose           *)
(* concatenation is the string; "" is << >> and s + t is s \o t.           *)
(* main.go holds two revisions of the program (googleProvider, then the    *)
(* older googleService); `revision` says which one a behaviour runs.       *)
(***************************************************************************)
EXTENDS Integers, Sequences, FiniteSets, TLC

VARIABLES
    cookie,             \* session -> the Values map held in that browser's signed cookie
    configRedirectURL,  \* the RedirectURL field of the one shared *oauth2.Config
    now,                \* time.Now().UnixNano(), as read by randomString
    googleRedirectURL,  \* the GOOGLE_REDIRECT_URL environment variable
    revision,           \* which revision of main.go is running
    resp,               \* what the last request did and answered
    script,             \* the position of a client that drives one session through a scenario
    pure,               \* the last application of a function that reads no state
    inflight,           \* request slot -> the request a goroutine is serving there, or none
    issued,             \* session -> the authorization redirect its browser last received
    paging              \* where a call of getGoogleBooks is in its loop over the pages

vars == <<cookie, configRedirectURL, now, googleRedirectURL, revision, resp, script, pure,
          inflight, issued, paging>>

-----------------------------------------------------------------------------
(* Bounds and input sets *)

MaxClock == 1

Sessions == {"alice", "bob"}
Revisions == {"googleProvider", "googleService"}
Hosts == {<<"localhost:8080">>, <<"libris.example.org">>}
Schemes == {<< >>, <<"https">>}
Overrides == {<< >>, <<"https://proxy.example.org/cb">>}

-----------------------------------------------------------------------------
(* Go values: interface values held in session.Values, and errors *)

GoNil == [kind |-> "nil"]
GoString(s) == [kind |-> "string", str |-> s]

\* v, ok := x.(string)
IsString(v) == v.kind = "string"
AsString(v) == IF IsString(v) THEN v.str ELSE << >>

EmptyValues == [k \in {} |-> GoNil]

\* m[key]: the zero interface value when the key is absent
Lookup(values, key) == IF key \in DOMAIN values THEN values[key] ELSE GoNil

\* m[key] = v
SetValue(values, key, v) ==
    [k \in (DOMAIN values) \cup {key} |-> IF k = key THEN v ELSE values[k]]

NilErr == [kind |-> "nil"]
GoErr(msg) == [kind |-> "error", msg |-> msg]

\* the decimal digits of n, as fmt's %d prints them
RECURSIVE Itoa(_)
Itoa(n) ==
    LET digit == <<"0", "1", "2", "3", "4", "5", "6", "7", "8", "9">>[(n % 10) + 1]
    IN IF n < 10 THEN <<digit>> ELSE Itoa(n \div 10) \o <<digit>>

\* fmt.Sprintf("st%d", time.Now().UnixNano())
randomString(t) == <<"st">> \o Itoa(t)

\* a slip: the two arguments are taken the other way round
defaultTo_Swapped(v, def) == IF def = << >> THEN v ELSE def

defaultTo(v, def) == IF v = << >> THEN def ELSE v

-----------------------------------------------------------------------------
(* package app *)

\* app.Wrap
\* a slip: an *Error is wrapped again, under the given status
Wrap_AlwaysRewrap(err, status) ==
    IF err.kind = "nil" THEN NilErr
    ELSE [kind |-> "appError",
          Message |-> IF err.kind = "appError" THEN err.Message ELSE err.msg,
          Status |-> status]

Wrap(err, status) ==
    IF err.kind = "nil" THEN NilErr
    ELSE IF err.kind = "appError" THEN err
    ELSE [kind |-> "appError", Message |-> err.msg, Status |-> status]

\* A defaultRouter is its pathPrefix; pathPrefix is the one of app.NewRouter("/google").
pathPrefix == <<"/google">>

\* defaultRouter.Route
Route(router, path) == router \o path

\* a slip: the endpoint named by OAuthCallback's doc comment
RouterOAuthCallback_Connect(router) == Route(router, <<"/oauth2connect">>)

\* defaultRouter.OAuthCallback
RouterOAuthCallback(router) == Route(router, <<"/oauth2callback">>)

OAuthCallbackEndpoint == RouterOAuthCallback(pathPrefix)

\* a slip: the empty scheme is not replaced
buildRedirectURL_NoDefault(r, router) ==
    r.scheme \o <<"://">> \o r.host \o RouterOAuthCallback(router)

\* buildRedirectURL / app.BuildRedirectURL
buildRedirectURL(r, router) ==
    LET scheme == IF r.scheme = << >> THEN <<"http">> ELSE r.scheme
    IN scheme \o <<"://">> \o r.host \o RouterOAuthCallback(router)

-----------------------------------------------------------------------------
(* The response writer and the application errors *)

NoURL == [base |-> << >>, query |-> [k \in {} |-> << >>]]

\* a response writer nothing was written to
NoWrite == [status |-> 0, body |-> << >>, location |-> NoURL]

\* fmt.Fprintln(w, s): the status line is implicit
Fprintln(s) == [status |-> 200, body |-> s \o <<"\n">>, location |-> NoURL]

\* http.Redirect(w, r, url, http.StatusTemporaryRedirect)
Redirect(url) == [status |-> 307, body |-> << >>, location |-> url]

errInvalidState(expected, actual) ==
    GoErr(<<"Invalid state parameter: expected ">> \o expected \o <<"; got ">> \o actual)
errCallbackError(message) == GoErr(<<"Callback received error: ">> \o message)
errCodeNotFound == GoErr(<<"Code not found.">>)
errAccessTokenNotFound == GoErr(<<"User not authorized. Use the /google/connect endpoint.">>)
errTokenExchangeError(err) == GoErr(<<"Problem with token exchange: ">> \o err.msg)
errCantLoadVolumes(err) == GoErr(<<"Couldn't load the user's volumes: ">> \o err.msg)
errCantRevokeToken(err) == GoErr(<<"Failed to revoke token for the current user: ">> \o err.msg)

\* What a handler function did: the *app.Error it returned, what it wrote to w,
\* the Values snapshots it saved (session.Save), its in-memory Values when it
\* returned, the shared config's RedirectURL when it returned, the provider
\* calls it made, and whether it panicked.
Outcome(via, err, w, saved, memory, cfg) ==
    [via |-> via, err |-> err, w |-> w, saved |-> saved, memory |-> memory, cfg |-> cfg,
     exchanges |-> << >>, revokes |-> << >>, lists |-> << >>, aborted |-> FALSE]

-----------------------------------------------------------------------------
(* The provider: what the outbound calls can answer *)

TokenObjs ==
    {[AccessToken |-> <<"tok_xyz">>, TokenType |-> <<"Bearer">>, RefreshToken |-> <<"rfr_xyz">>],
     [AccessToken |-> <<"tok_abc">>, TokenType |-> <<"Bearer">>, RefreshToken |-> << >>]}
NoToken == [AccessToken |-> << >>, TokenType |-> << >>, RefreshToken |-> << >>]

\* config.Exchange: a token, or an error
ExchangeOutcomes ==
    {[ok |-> TRUE, token |-> t, err |-> NilErr] : t \in TokenObjs}
    \cup {[ok |-> FALSE, token |-> NoToken,
           err |-> GoErr(<<"oauth2: cannot fetch token: 400 Bad Request">>)]}

\* http.Get(revoke URL): a response and no error (whatever the provider's
\* status), no response and an error (the request could not be made), or a
\* response and an error (the redirect policy stopped the request)
RevokeOutcomes ==
    {[hasResp |-> TRUE, failed |-> FALSE, status |-> 200, cause |-> << >>],
     [hasResp |-> TRUE, failed |-> FALSE, status |-> 400, cause |-> << >>],
     [hasResp |-> FALSE, failed |-> TRUE, status |-> 0,
      cause |-> <<": dial tcp: connection refused">>],
     [hasResp |-> TRUE, failed |-> TRUE, status |-> 302,
      cause |-> <<": stopped after 10 redirects">>]}

\* svc.Volumes.Mybooks.List()...Do(), over all pages
ListOutcomes ==
    {[ok |-> TRUE, err |-> NilErr],
     [ok |-> FALSE, err |-> GoErr(<<"googleapi: Error 401: Invalid Credentials">>)]}

clientID == <<"client-id">>
booksScope == <<"https://www.googleapis.com/auth/books">>

\* config.AuthCodeURL(state), with config.RedirectURL = redirectURL
AuthCodeURL(redirectURL, state) ==
    LET keys == {"client_id", "response_type", "scope"}
                \cup (IF redirectURL # << >> THEN {"redirect_uri"} ELSE {})
                \cup (IF state # << >> THEN {"state"} ELSE {})
    IN [base |-> <<"https://accounts.google.com/o/oauth2/auth">>,
        query |-> [k \in keys |->
                     CASE k = "client_id" -> clientID
                       [] k = "response_type" -> <<"code">>
                       [] k = "scope" -> booksScope
                       [] k = "redirect_uri" -> redirectURL
                       [] k = "state" -> state]]

\* a URL that is only a path
PathURL(path) == [base |-> path, query |-> [k \in {} |-> << >>]]

-----------------------------------------------------------------------------
(* The handlers of main.go *)

\* a slip: the key's presence is tested, not the value's type
BooksUnauthorized_KeyAbsent(values) == "accessToken" \notin DOMAIN values

\* HandleBooks: _, ok := session.Values["accessToken"].(string); !ok
BooksUnauthorized(values) == ~IsString(Lookup(values, "accessToken"))

\* a slip: the wrong session value is handed to the client
BooksBearer_State(values) == AsString(Lookup(values, "state"))

\* HandleBooks: the token given to newGoogleBooksClient
BooksBearer(values) == AsString(Lookup(values, "accessToken"))

HandleBooks(values, cfg, list) ==
    LET token == BooksBearer(values)
        call == [bearer |-> token, answer |-> list]
    IN IF BooksUnauthorized(values)
       THEN Outcome("errAccessTokenNotFound", Wrap(errAccessTokenNotFound, 401),
                    NoWrite, << >>, values, cfg)
       ELSE IF ~list.ok
       THEN [Outcome("errCantLoadVolumes", Wrap(errCantLoadVolumes(list.err), 500),
                     NoWrite, << >>, values, cfg) EXCEPT !.lists = <<call>>]
       ELSE [Outcome("books", NilErr, [status |-> 200, body |-> <<"[books]">>, location |-> NoURL],
                     << >>, values, cfg) EXCEPT !.lists = <<call>>]

\* a slip: the test is left out, and every connect starts a flow
ConnectAlreadyConnected_Never(values) == FALSE

\* HandleConnect: _, ok := session.Values["accessToken"].(string); ok
ConnectAlreadyConnected(values) == IsString(Lookup(values, "accessToken"))

\* a slip: the state is sent to the provider and never stored
ConnectSavedValues_Unsaved(values, state) == values

\* HandleConnect: session.Values["state"] = state; session.Save(r, w)
ConnectSavedValues(values, state) == SetValue(values, "state", GoString(state))

\* HandleConnect: defaultTo(googleRedirectURL, buildRedirectURL(r, goog))
ConnectRedirectURL(env, r) == defaultTo(env, buildRedirectURL(r, pathPrefix))

\* a slip: the authorization URL is built from the request's own redirect
\* URL, not from the shared config
ConnectOutcome_OwnURL(values, cfg, env, r, t, read) ==
    IF IsString(Lookup(values, "accessToken"))
    THEN Outcome("connected", NilErr, Fprintln(<<"Connected!">>), << >>, values, cfg)
    ELSE LET v1 == SetValue(values, "state", GoString(randomString(t)))
             own == defaultTo(env, buildRedirectURL(r, pathPrefix))
         IN Outcome("redirect", NilErr, Redirect(AuthCodeURL(own, randomString(t))),
                    <<v1>>, v1, own)

\* HandleConnect, where read is what config.RedirectURL holds when
\* config.AuthCodeURL(state) reads it
ConnectOutcome(values, cfg, env, r, t, read) ==
    IF ConnectAlreadyConnected(values)
    THEN Outcome("connected", NilErr, Fprintln(<<"Connected!">>), << >>, values, cfg)
    ELSE LET state == randomString(t)
             v1 == ConnectSavedValues(values, state)
             url == AuthCodeURL(read, state)
         IN Outcome("redirect", NilErr, Redirect(url), <<v1>>, v1, read)

\* HandleConnect served alone: it reads the redirect URL it has just written
HandleConnect(values, cfg, env, r, t) ==
    ConnectOutcome(values, cfg, env, r, t, ConnectRedirectURL(env, r))

\* a slip: the ok of the type assertion is not looked at
CallbackStateInvalid_IgnoresOk(ok, formState, sessionState) == formState # sessionState

\* HandleOAuthCallback: !ok || r.FormValue("state") != sessionState
CallbackStateInvalid(ok, formState, sessionState) == ~ok \/ formState # sessionState

\* a slip: the error parameter is looked at only when no code came with it
CallbackHasError_OnlyWithoutCode(form) == form.error # << >> /\ form.code = << >>

\* HandleOAuthCallback: errMsg := r.FormValue("error"); errMsg != ""
CallbackHasError(form) == form.error # << >>

\* a slip: the code is not looked at before the exchange
CallbackCodeMissing_Never(form) == FALSE

\* HandleOAuthCallback: code := r.FormValue("code"); code == ""
CallbackCodeMissing(form) == form.code = << >>

\* HandleOAuthCallback: the status given with errCodeNotFound
MissingCodeStatus(rev) == IF rev = "googleProvider" THEN 400 ELSE 502

\* a slip: the refresh token is stored beside the access token
CallbackSavedValues_WholeToken(values, token) ==
    SetValue(SetValue(values, "accessToken", GoString(token.AccessToken)),
             "refreshToken", GoString(token.RefreshToken))

\* HandleOAuthCallback: session.Values["accessToken"] = token.AccessToken; session.Save(r, w)
CallbackSavedValues(values, token) == SetValue(values, "accessToken", GoString(token.AccessToken))

\* HandleOAuthCallback: the deferred session.Values["state"] = nil, which runs
\* when the function returns, after every Save
CallbackDeferred(values) == SetValue(values, "state", GoNil)

HandleOAuthCallback(rev, values, cfg, form, exch) ==
    LET sessionStateV == Lookup(values, "state")
        ok == IsString(sessionStateV)
        sessionState == AsString(sessionStateV)
        \* googleProvider defers before the checks, googleService after them
        early == IF rev = "googleProvider" THEN CallbackDeferred(values) ELSE values
        call == [code |-> form.code, redirect_uri |-> cfg, answer |-> exch]
    IN IF CallbackStateInvalid(ok, form.state, sessionState)
       THEN Outcome("errInvalidState", Wrap(errInvalidState(sessionState, form.state), 400),
                    NoWrite, << >>, early, cfg)
       ELSE IF CallbackHasError(form)
       THEN Outcome("errCallbackError", Wrap(errCallbackError(form.error), 401),
                    NoWrite, << >>, early, cfg)
       ELSE IF CallbackCodeMissing(form)
       THEN Outcome("errCodeNotFound", Wrap(errCodeNotFound, MissingCodeStatus(rev)),
                    NoWrite, << >>, early, cfg)
       ELSE IF ~exch.ok
       THEN [Outcome("errTokenExchangeError", Wrap(errTokenExchangeError(exch.err), 500),
                     NoWrite, << >>, CallbackDeferred(values), cfg)
                EXCEPT !.exchanges = <<call>>]
       ELSE LET v1 == CallbackSavedValues(values, exch.token)
            IN [Outcome("redirect", NilErr, Redirect(PathURL(Route(pathPrefix, <<"/connect">>))),
                        <<v1>>, CallbackDeferred(v1), cfg)
                   EXCEPT !.exchanges = <<call>>]

\* a slip: only the access token is cleared
DisconnectSavedValues_TokenOnly(values) == SetValue(values, "accessToken", GoNil)

\* HandleDisconnect: session.Values["state"] = nil; session.Values["accessToken"] = nil;
\* session.Save(r, w)
DisconnectSavedValues(values) ==
    SetValue(SetValue(values, "state", GoNil), "accessToken", GoNil)

\* HandleDisconnect: resp, err := http.Get(url); ...; err != nil
DisconnectRevokeFailed(rv) == rv.failed

\* a slip: the test is left out, and every disconnect revokes
DisconnectNotConnected_Never(values) == FALSE

\* HandleDisconnect: token, ok := session.Values["accessToken"].(string); !ok
DisconnectNotConnected(values) == ~IsString(Lookup(values, "accessToken"))

HandleDisconnect(values, cfg, rv) ==
    LET tokenV == Lookup(values, "accessToken")
        url == <<"https://accounts.google.com/o/oauth2/revoke?token=">> \o AsString(tokenV)
        call == [url |-> url, answer |-> rv]
        err == GoErr(<<"Get ">> \o url \o rv.cause)
    IN IF DisconnectNotConnected(values)
       THEN Outcome("notConnected", NilErr,
                    Fprintln(<<"User wasn't connected. Nothing was done.">>), << >>, values, cfg)
       ELSE IF ~rv.hasResp
       THEN \* defer resp.Body.Close() with resp == nil: nil pointer dereference
            [Outcome("panic", NilErr, NoWrite, << >>, values, cfg)
                EXCEPT !.revokes = <<call>>, !.aborted = TRUE]
       ELSE IF DisconnectRevokeFailed(rv)
       THEN [Outcome("errCantRevokeToken", Wrap(errCantRevokeToken(err), 500),
                     NoWrite, << >>, values, cfg)
                EXCEPT !.revokes = <<call>>]
       ELSE LET v1 == DisconnectSavedValues(values)
            IN [Outcome("disconnected", NilErr, Fprintln(<<"User disconnected!">>),
                        <<v1>>, v1, cfg)
                   EXCEPT !.revokes = <<call>>]

-----------------------------------------------------------------------------
(* app.Handler and the cookie store *)

\* Handler.ServeHTTP: what the client receives. A panic leaves no response:
\* the server recovers it and closes the connection.
ServeHTTP(out) ==
    IF out.aborted THEN NoWrite
    ELSE IF out.err.kind # "nil"
    THEN [status |-> out.err.Status, body |-> out.err.Message \o <<"\n">>, location |-> NoURL]
    ELSE out.w

\* a slip: no Set-Cookie ever reaches the browser
Persist_Dropped(values, saved) == values

\* The cookie the browser holds after the response: the last Values that
\* session.Save wrote, or the one it sent when nothing was saved.
Persist(values, saved) == IF saved = << >> THEN values ELSE saved[Len(saved)]

Response(handler, s, req, out) ==
    [handler |-> handler, session |-> s, req |-> req, pre |-> cookie[s],
     http |-> ServeHTTP(out), out |-> out]

NoOutcome == Outcome("none", NilErr, NoWrite, << >>, EmptyValues, << >>)

-----------------------------------------------------------------------------
(* The state machine *)

ConnectRequests == [host : Hosts, scheme : Schemes]
CallbackStates == {<< >>} \cup {randomString(t) : t \in 0..MaxClock}
CallbackForms ==
    [state : CallbackStates, error : {<< >>, <<"access_denied">>}, code : {<< >>, <<"ABC123">>}]
NoRequest == [none |-> TRUE]

\* no scenario is driven, no function was applied
NoScript == [step |-> 0, session |-> "none", state |-> << >>]
NoCall == [fn |-> "none"]

\* the goroutines that can serve requests at the same time
Slots == {"g1", "g2"}

\* no request is being served in a slot; no authorization redirect was received
Idle == [pc |-> "idle"]
NoPaging == [pc |-> "idle"]

NoFlow == [state |-> << >>, redirect_uri |-> << >>]

Init ==
    /\ cookie = [s \in Sessions |-> EmptyValues]
    /\ configRedirectURL = << >>
    /\ now = 0
    /\ googleRedirectURL \in Overrides
    /\ revision \in Revisions
    /\ resp = [handler |-> "none", session |-> "none", req |-> NoRequest,
               pre |-> EmptyValues, http |-> NoWrite, out |-> NoOutcome]
    /\ script = NoScript
    /\ pure = NoCall
    /\ inflight = [g \in Slots |-> Idle]
    /\ issued = [s \in Sessions |-> NoFlow]
    /\ paging = NoPaging

Serve(handler, s, req, out) ==
    /\ cookie' = [cookie EXCEPT ![s] = Persist(cookie[s], out.saved)]
    /\ configRedirectURL' = out.cfg
    /\ resp' = Response(handler, s, req, out)
    /\ UNCHANGED <<now, googleRedirectURL, revision, pure, inflight, issued, paging>>

\* The provider answers only when it is called: the answers are enumerated
\* for the requests whose handler reaches the call.
Answers(called, outcomes) ==
    IF called THEN outcomes ELSE {CHOOSE o \in outcomes : TRUE}

Books(s) ==
    \E list \in Answers(~BooksUnauthorized(cookie[s]), ListOutcomes) :
        /\ Serve("books", s, NoRequest, HandleBooks(cookie[s], configRedirectURL, list))
        /\ UNCHANGED script

Connect(s) ==
    \E r \in ConnectRequests :
        /\ Serve("connect", s, r,
                 HandleConnect(cookie[s], configRedirectURL, googleRedirectURL, r, now))
        /\ UNCHANGED script

Disconnect(s) ==
    \E rv \in Answers(~DisconnectNotConnected(cookie[s]), RevokeOutcomes) :
        /\ Serve("disconnect", s, NoRequest, HandleDisconnect(cookie[s], configRedirectURL, rv))
        /\ UNCHANGED script

OAuthCallback(s) ==
    \E form \in CallbackForms :
        LET probe == HandleOAuthCallback(revision, cookie[s], configRedirectURL, form,
                                         CHOOSE o \in ExchangeOutcomes : TRUE)
        IN \E exch \in Answers(probe.exchanges # << >>, ExchangeOutcomes) :
               /\ Serve("callback", s, form,
                        HandleOAuthCallback(revision, cookie[s], configRedirectURL, form, exch))
               /\ UNCHANGED script

\* time passes between two reads of the clock, or does not
Tick ==
    /\ now < MaxClock
    /\ now' = now + 1
    /\ UNCHANGED <<cookie, configRedirectURL, googleRedirectURL, revision, resp, script, pure,
                   inflight, issued, paging>>

Next ==
    \/ \E s \in Sessions : Books(s)
    \/ \E s \in Sessions : Connect(s)
    \/ \E s \in Sessions : Disconnect(s)
    \/ \E s \in Sessions : OAuthCallback(s)
    \/ Tick

Spec == Init /\ [][Next]_vars

-----------------------------------------------------------------------------
(* Properties of the handlers *)

\* the session of the last request, as the browser now holds it
Session == cookie[resp.session]

HoldsState(values) == IsString(Lookup(values, "state"))
HoldsToken(values) == IsString(Lookup(values, "accessToken"))

\* the last request was a callback whose state parameter matched the state
\* its session held
ValidStateCallback(r) ==
    /\ r.handler = "callback"
    /\ HoldsState(r.pre)
    /\ r.req.state = AsString(Lookup(r.pre, "state"))

\* the last request was a callback whose state check had to fail
InvalidStateCallback(r) ==
    /\ r.handler = "callback"
    /\ \/ ~HoldsState(r.pre)
       \/ r.req.state = << >>
       \/ r.req.state # AsString(Lookup(r.pre, "state"))

InvalidStateResponse(r) ==
    /\ r.out.via = "errInvalidState"
    /\ r.http.status = 400
    /\ r.out.exchanges = << >>

\* C1 (as claimed): a callback that repeats, in the same session, the callback
\* URL of the request before it, which had passed the state check, fails with
\* InvalidState (400) and exchanges no token.
C1_ReplayRejected ==
    [][(/\ ValidStateCallback(resp)
        /\ resp'.handler = "callback"
        /\ resp'.session = resp.session
        /\ resp'.req = resp.req
        /\ resp' # resp)
       => InvalidStateResponse(resp')]_vars

\* C2 (as claimed): a callback whose session holds no state, whose request has
\* no state parameter, or whose two values differ, fails with InvalidState,
\* exchanges no token, and leaves no state in the persisted session.
C2_InvalidStateClearsState ==
    InvalidStateCallback(resp)
        => /\ InvalidStateResponse(resp)
           /\ ~HoldsState(Session)

\* C3: a callback with a non-empty error parameter never calls the token
\* exchange, code or no code; with a valid state it answers 401 with the
\* provider's message.
C3_ErrorParamNeverExchanges ==
    (resp.handler = "callback" /\ resp.req.error # << >>)
        => /\ resp.out.exchanges = << >>
           /\ ValidStateCallback(resp)
                => /\ resp.out.via = "errCallbackError"
                   /\ resp.http.status = 401
                   /\ resp.http.body
                        = <<"Callback received error: ">> \o resp.req.error \o <<"\n">>

C3_Witness ==
    /\ ValidStateCallback(resp)
    /\ resp.req.error # << >>
    /\ resp.req.code # << >>
    /\ resp.http.status = 401

\* C4: a books request in a session without an access token is answered 401
\* and the books are never listed.
C4_NoTokenUnauthorized ==
    (resp.handler = "books" /\ ~HoldsToken(resp.pre))
        => /\ resp.http.status = 401
           /\ resp.http.body = errAccessTokenNotFound.msg \o <<"\n">>
           /\ resp.out.lists = << >>

C4_Witness ==
    /\ resp.handler = "books"
    /\ "accessToken" \in DOMAIN resp.pre
    /\ ~HoldsToken(resp.pre)
    /\ resp.http.status = 401

\* C5: connect on a session that holds an access token answers 200
\* "Connected!", saves nothing, redirects nowhere, and leaves every session
\* and the shared config's redirect URL as they were; a second connect right
\* after it answers the same.
C5_ConnectWhenConnectedIsNoOp ==
    [][(resp'.handler = "connect" /\ HoldsToken(resp'.pre))
       => /\ resp'.http = Fprintln(<<"Connected!">>)
          /\ resp'.out.saved = << >>
          /\ resp'.out.memory = resp'.pre
          /\ cookie' = cookie
          /\ configRedirectURL' = configRedirectURL
          /\ (resp.handler = "connect" /\ resp.session = resp'.session)
                => resp'.http = resp.http]_vars

C5_Witness ==
    /\ resp.handler = "connect"
    /\ HoldsToken(resp.pre)
    /\ HoldsState(resp.pre)
    /\ configRedirectURL # << >>

\* C6: connect on a session without an access token answers 307 to the
\* provider's authorization URL, whose state parameter is non-empty and is
\* the state the request persisted in the session.
C6_ConnectRedirectCarriesSavedState ==
    (resp.handler = "connect" /\ ~HoldsToken(resp.pre))
        => /\ resp.http.status = 307
           /\ resp.http.location.base = <<"https://accounts.google.com/o/oauth2/auth">>
           /\ "state" \in DOMAIN resp.http.location.query
           /\ resp.http.location.query["state"] # << >>
           /\ HoldsState(Session)
           /\ resp.http.location.query["state"] = AsString(Lookup(Session, "state"))

C6_Witness ==
    /\ resp.handler = "connect"
    /\ ~HoldsToken(resp.pre)
    /\ HoldsState(resp.pre)
    /\ Lookup(resp.pre, "state") # Lookup(Session, "state")

\* C7: a callback with a valid state, no error and a code, whose exchange
\* answers token T, leaves exactly T's access-token string under accessToken
\* in the persisted session, stores nothing else of T, and answers 307 to the
\* connect endpoint.
C7_SuccessStoresAccessTokenString ==
    (/\ ValidStateCallback(resp)
     /\ resp.req.error = << >>
     /\ resp.req.code # << >>)
        => /\ Len(resp.out.exchanges) = 1
           /\ resp.out.exchanges[1].answer.ok
                => /\ Lookup(Session, "accessToken")
                        = GoString(resp.out.exchanges[1].answer.token.AccessToken)
                   /\ DOMAIN Session \subseteq {"state", "accessToken"}
                   /\ \A k \in DOMAIN Session :
                          Session[k] \in {GoNil} \cup {GoString(randomString(t)) : t \in 0..MaxClock}
                                         \cup {GoString(o.AccessToken) : o \in TokenObjs}
                   /\ resp.http.status = 307
                   /\ resp.http.location = PathURL(<<"/google", "/connect">>)

C7_Witness ==
    /\ ValidStateCallback(resp)
    /\ Len(resp.out.exchanges) = 1
    /\ resp.out.exchanges[1].answer.ok
    /\ resp.out.exchanges[1].answer.token.RefreshToken # << >>
    /\ HoldsToken(resp.pre)
    /\ Lookup(resp.pre, "accessToken") # Lookup(Session, "accessToken")

\* C8 (as claimed): each failure of the callback has one fixed status:
\* InvalidState 400, MissingCode 400, provider error 401, exchange failure 500.
C8_FailureStatuses ==
    resp.handler = "callback"
        => /\ resp.out.via = "errInvalidState" => resp.http.status = 400
           /\ resp.out.via = "errCodeNotFound" => resp.http.status = 400
           /\ resp.out.via = "errCallbackError" => resp.http.status = 401
           /\ resp.out.via = "errTokenExchangeError" => resp.http.status = 500

\* the provider revoked the token: a response, no error, status 200
RevokeSucceeded(r) ==
    /\ Len(r.out.revokes) = 1
    /\ ~r.out.revokes[1].answer.failed
    /\ r.out.revokes[1].answer.status = 200

\* C9: disconnect on a session that holds an access token, when the revoke
\* succeeds, leaves neither state nor accessToken in the persisted session
\* and answers 200 "User disconnected!".
C9_DisconnectClearsSession ==
    (resp.handler = "disconnect" /\ HoldsToken(resp.pre))
        => /\ Len(resp.out.revokes) = 1
           /\ RevokeSucceeded(resp)
                => /\ ~HoldsState(Session)
                   /\ ~HoldsToken(Session)
                   /\ resp.http = Fprintln(<<"User disconnected!">>)

C9_Witness ==
    /\ resp.handler = "disconnect"
    /\ HoldsToken(resp.pre)
    /\ HoldsState(resp.pre)
    /\ RevokeSucceeded(resp)

\* C10 (as claimed): disconnect on a session that holds an access token, when
\* the revoke fails (the request cannot be made, or the provider refuses it),
\* answers with the RevokeFailed error and does not report "User disconnected!".
C10_RevokeFailureReported ==
    (/\ resp.handler = "disconnect"
     /\ HoldsToken(resp.pre)
     /\ Len(resp.out.revokes) = 1
     /\ ~RevokeSucceeded(resp))
        => /\ resp.out.via = "errCantRevokeToken"
           /\ resp.http.status >= 400
           /\ resp.http.body # <<"User disconnected!", "\n">>

\* C11: disconnect on a session without an access token answers 200 "User
\* wasn't connected. Nothing was done.", never calls the revoke, saves nothing
\* and leaves the session, a pending state included, as it was.
C11_DisconnectWhenNotConnectedIsNoOp ==
    (resp.handler = "disconnect" /\ ~HoldsToken(resp.pre))
        => /\ resp.http = Fprintln(<<"User wasn't connected. Nothing was done.">>)
           /\ resp.out.revokes = << >>
           /\ resp.out.saved = << >>
           /\ resp.out.memory = resp.pre
           /\ Session = resp.pre

C11_Witness ==
    /\ resp.handler = "disconnect"
    /\ ~HoldsToken(resp.pre)
    /\ HoldsState(resp.pre)
    /\ resp.http.status = 200

\* C12: after a successful disconnect every books request of the session is
\* answered 401 until a connect and then a successful callback have completed
\* in it. Step by step: a successful disconnect leaves neither token nor
\* state; a books request of a session without token is answered 401 without
\* listing; a session without token gets one only by a callback of that
\* session that passes the state check on a held state and exchanges; and a
\* session without state gets one only by a connect of that session.
C12_UnauthorizedAfterDisconnect ==
    [][\A s \in Sessions :
         /\ (resp'.handler = "disconnect" /\ resp'.session = s
                /\ resp'.out.via = "disconnected")
               => (~HoldsToken(cookie'[s]) /\ ~HoldsState(cookie'[s]))
         /\ (resp'.handler = "books" /\ resp'.session = s /\ ~HoldsToken(cookie'[s]))
               => (resp'.http.status = 401 /\ resp'.out.lists = << >>)
         /\ (~HoldsToken(cookie[s]) /\ HoldsToken(cookie'[s]))
               => /\ resp'.handler = "callback"
                  /\ resp'.session = s
                  /\ resp'.out.via = "redirect"
                  /\ Len(resp'.out.exchanges) = 1
                  /\ HoldsState(cookie[s])
         /\ (~HoldsState(cookie[s]) /\ HoldsState(cookie'[s]))
               => /\ resp'.handler = "connect"
                  /\ resp'.session = s
                  /\ resp'.out.via = "redirect"]_vars

\* a books request answered 401 in a session whose token a disconnect set to
\* nil and in which a connect has since stored a state
C12_Witness ==
    /\ resp.handler = "books"
    /\ "accessToken" \in DOMAIN resp.pre
    /\ ~HoldsToken(resp.pre)
    /\ HoldsState(resp.pre)
    /\ resp.http.status = 401

\* the last request was a connect that started a flow
ConnectRedirected(r) == r.handler = "connect" /\ r.out.via = "redirect"

\* C13: with a non-empty GOOGLE_REDIRECT_URL, the redirect URL of every flow
\* is that value verbatim, whatever the request's scheme and Host: it is the
\* redirect_uri of the authorization URL and the RedirectURL left in the config.
C13_OverrideVerbatim ==
    (ConnectRedirected(resp) /\ googleRedirectURL # << >>)
        => /\ "redirect_uri" \in DOMAIN resp.http.location.query
           /\ resp.http.location.query["redirect_uri"] = googleRedirectURL
           /\ configRedirectURL = googleRedirectURL

C13_Witness ==
    /\ ConnectRedirected(resp)
    /\ googleRedirectURL # << >>
    /\ resp.req.scheme = <<"https">>
    /\ resp.req.host = <<"libris.example.org">>

\* C14: without GOOGLE_REDIRECT_URL, the redirect URL of a flow is
\* scheme + "://" + Host + "/google/oauth2callback", with the request's Host
\* and its URL scheme, "http" when that scheme is empty.
C14_DerivedRedirectURL ==
    (ConnectRedirected(resp) /\ googleRedirectURL = << >>)
        => /\ "redirect_uri" \in DOMAIN resp.http.location.query
           /\ resp.http.location.query["redirect_uri"]
                = (IF resp.req.scheme = << >> THEN <<"http">> ELSE resp.req.scheme)
                    \o <<"://">> \o resp.req.host \o <<"/google", "/oauth2callback">>
           /\ configRedirectURL = resp.http.location.query["redirect_uri"]

C14_Witness ==
    /\ ConnectRedirected(resp)
    /\ googleRedirectURL = << >>
    /\ resp.req.scheme = << >>
    /\ resp.http.location.query["redirect_uri"]
         = <<"http", "://", "libris.example.org", "/google", "/oauth2callback">>

-----------------------------------------------------------------------------
(* One browser walks through the whole flow while the other sessions do
   whatever they want. script.step counts the requests the browser has made,
   script.state is the state parameter it was redirected with. *)

ScenarioInit ==
    /\ cookie = [s \in Sessions |-> EmptyValues]
    /\ configRedirectURL = << >>
    /\ now = 0
    /\ googleRedirectURL \in Overrides
    /\ revision \in Revisions
    /\ resp = [handler |-> "none", session |-> "none", req |-> NoRequest,
               pre |-> EmptyValues, http |-> NoWrite, out |-> NoOutcome]
    /\ script \in [step : {0}, session : Sessions, state : {<< >>}]
    /\ pure = NoCall
    /\ inflight = [g \in Slots |-> Idle]
    /\ issued = [s \in Sessions |-> NoFlow]
    /\ paging = NoPaging

\* the exchange and the revocation the scenario is about: both succeed
ExchangeSucceeds == {o \in ExchangeOutcomes : o.ok}
RevokeSucceeds == {rv \in RevokeOutcomes : rv.hasResp /\ ~rv.failed /\ rv.status = 200}

\* GET /google
ScenarioBooks ==
    /\ script.step = 0
    /\ \E list \in Answers(~BooksUnauthorized(cookie[script.session]), ListOutcomes) :
           Serve("books", script.session, NoRequest,
                 HandleBooks(cookie[script.session], configRedirectURL, list))
    /\ script' = [script EXCEPT !.step = 1]

\* GET /google/connect; the browser keeps the state of the Location it gets
ScenarioConnect ==
    /\ script.step = 1
    /\ \E r \in ConnectRequests :
           Serve("connect", script.session, r,
                 HandleConnect(cookie[script.session], configRedirectURL,
                               googleRedirectURL, r, now))
    /\ script' = [script EXCEPT !.step = 2,
                                !.state = IF "state" \in DOMAIN resp'.http.location.query
                                          THEN resp'.http.location.query["state"]
                                          ELSE << >>]

\* GET /google/oauth2callback?state=<same>&code=ABC123
ScenarioCallback ==
    /\ script.step = 2
    /\ LET form == [state |-> script.state, error |-> << >>, code |-> <<"ABC123">>]
       IN \E exch \in ExchangeSucceeds :
              Serve("callback", script.session, form,
                    HandleOAuthCallback(revision, cookie[script.session],
                                        configRedirectURL, form, exch))
    /\ script' = [script EXCEPT !.step = 3]

\* GET /google/connect, following the redirect
ScenarioConnected ==
    /\ script.step = 3
    /\ \E r \in ConnectRequests :
           Serve("connect", script.session, r,
                 HandleConnect(cookie[script.session], configRedirectURL,
                               googleRedirectURL, r, now))
    /\ script' = [script EXCEPT !.step = 4]

\* GET /google/disconnect
ScenarioDisconnect ==
    /\ script.step = 4
    /\ \E rv \in RevokeSucceeds :
           Serve("disconnect", script.session, NoRequest,
                 HandleDisconnect(cookie[script.session], configRedirectURL, rv))
    /\ script' = [script EXCEPT !.step = 5]

ScenarioNext ==
    \/ ScenarioBooks
    \/ ScenarioConnect
    \/ ScenarioCallback
    \/ ScenarioConnected
    \/ ScenarioDisconnect
    \/ \E s \in Sessions \ {script.session} : Books(s)
    \/ \E s \in Sessions \ {script.session} : Connect(s)
    \/ \E s \in Sessions \ {script.session} : Disconnect(s)
    \/ \E s \in Sessions \ {script.session} : OAuthCallback(s)
    \/ Tick

ScenarioSpec == ScenarioInit /\ [][ScenarioNext]_vars

\* the scenario's browser has just been answered
ScenarioAnswered(k) == script.step = k /\ resp.session = script.session

\* C15: from an empty session, with the exchange and the revocation
\* succeeding: the resource request gives 401; connect gives 307 to the
\* provider with a non-empty state; the callback with that state and a code
\* gives 307 to the connect endpoint and the session holds the exchanged access
\* token; connect then gives 200 "Connected!"; disconnect gives 200
\* "User disconnected!" and the session holds no access token. What each
\* request left in the cookie is what the next request reads, whatever the
\* other sessions do in between.
C15_Scenario ==
    LET mine == cookie[script.session]
    IN /\ ScenarioAnswered(1)
            => /\ resp.handler = "books" /\ resp.pre = EmptyValues
               /\ resp.http.status = 401
               /\ resp.http.body
                    = <<"User not authorized. Use the /google/connect endpoint.", "\n">>
       /\ script.step \in {0, 1} => mine = EmptyValues
       /\ ScenarioAnswered(2)
            => /\ resp.handler = "connect" /\ resp.pre = EmptyValues
               /\ resp.http.status = 307
               /\ resp.http.location.base = <<"https://accounts.google.com/o/oauth2/auth">>
               /\ "state" \in DOMAIN resp.http.location.query
               /\ resp.http.location.query["state"] = script.state
       /\ script.step = 2
            => /\ script.state # << >>
               /\ Lookup(mine, "state") = GoString(script.state)
               /\ ~HoldsToken(mine)
       /\ ScenarioAnswered(3)
            => /\ resp.handler = "callback"
               /\ Lookup(resp.pre, "state") = GoString(resp.req.state)
               /\ resp.req.code = <<"ABC123">>
               /\ resp.http.status = 307
               /\ resp.http.location = PathURL(<<"/google", "/connect">>)
               /\ Len(resp.out.exchanges) = 1
               /\ resp.out.exchanges[1].code = <<"ABC123">>
               /\ Lookup(mine, "accessToken")
                    = GoString(resp.out.exchanges[1].answer.token.AccessToken)
       /\ script.step \in {3, 4}
            => Lookup(mine, "accessToken") \in {GoString(<<"tok_xyz">>), GoString(<<"tok_abc">>)}
       /\ ScenarioAnswered(4)
            => /\ resp.handler = "connect" /\ HoldsToken(resp.pre)
               /\ resp.http = Fprintln(<<"Connected!">>)
               /\ mine = resp.pre
       /\ ScenarioAnswered(5)
            => /\ resp.handler = "disconnect" /\ HoldsToken(resp.pre)
               /\ Len(resp.out.revokes) = 1
               /\ resp.out.revokes[1].url
                    = <<"https://accounts.google.com/o/oauth2/revoke?token=">>
                        \o AsString(Lookup(resp.pre, "accessToken"))
               /\ resp.http = Fprintln(<<"User disconnected!">>)
       /\ script.step = 5 => ~HoldsToken(mine)

C15_Witness ==
    /\ ScenarioAnswered(5)
    /\ resp.http.status = 200
    /\ resp.pre["accessToken"] = GoString(<<"tok_xyz">>)
    /\ ~HoldsToken(cookie[script.session])
    /\ \E o \in Sessions \ {script.session} : HoldsToken(cookie[o])

-----------------------------------------------------------------------------
\* strings.Contains over texts kept as sequences of fragments
Contains(s, substr) ==
    \E i \in 1..(Len(s) - Len(substr) + 1) : SubSeq(s, i, i + Len(substr) - 1) = substr

\* the request was answered with an error message
ErrorAnswered(r) == r.out.err.kind # "nil" /\ ~r.out.aborted

\* C16: no error message sent to the client contains the access token the
\* session holds, whichever handler and whichever error it is.
C16_NoTokenInErrorMessage ==
    (ErrorAnswered(resp) /\ HoldsToken(resp.pre))
        => ~Contains(resp.http.body, AsString(Lookup(resp.pre, "accessToken")))

\* C20: after a callback, whatever its outcome, the cookie the session's
\* next request will send holds no state.
C20_StateDestroyedAtCallback ==
    resp.handler = "callback" => ~HoldsState(cookie[resp.session])

-----------------------------------------------------------------------------
(* package libris: books and their two encodings *)

MaxBooks == 2

\* AverageRating is kept in hundredths: 450 is 4.5
SomeBooks ==
    {[Title |-> <<"Dune">>, Authors |-> << <<"Frank Herbert">> >>,
      Identifier |-> <<"9780441013593">>, IdentifierType |-> <<"ISBN_13">>,
      AverageRating |-> 450, Publisher |-> <<"Ace">>, FileType |-> <<"EPUB">>],
     [Title |-> <<"Good Omens">>, Authors |-> << <<"Terry Pratchett">>, <<"Neil Gaiman">> >>,
      Identifier |-> << >>, IdentifierType |-> << >>,
      AverageRating |-> 0, Publisher |-> << >>, FileType |-> <<"UNKNOWN">>]}

BookLists == UNION {[1..n -> SomeBooks] : n \in 0..MaxBooks}

\* strings.Join
RECURSIVE Join(_, _)
Join(elems, sep) ==
    IF elems = << >> THEN << >>
    ELSE IF Len(elems) = 1 THEN elems[1]
    ELSE elems[1] \o sep \o Join(Tail(elems), sep)

\* fmt.Sprintf("%.2f", rating)
Sprintf2f(hundredths) ==
    Itoa(hundredths \div 100) \o <<".">>
        \o Itoa((hundredths % 100) \div 10) \o Itoa(hundredths % 10)

\* Book.marshalCSVRow
marshalCSVRow(b) ==
    <<b.Title, Join(b.Authors, <<", ">>), b.Identifier, << >>,
      Sprintf2f(b.AverageRating), b.Publisher>>

\* Books.marshalCSV
marshalCSV(bs) ==
    << << <<"Title">>, <<"Author">>, <<"ISBN">>, <<"My Rating">>, <<"Average Rating">>,
          <<"Publisher">> >> >>
        \o [i \in 1..Len(bs) |-> marshalCSVRow(bs[i])]

\* json.Marshal of a *Book: the struct's tags are all omitempty
marshalJSONBook(b) ==
    LET empty(k) == IF k = "AverageRating" THEN b[k] = 0 ELSE b[k] = << >>
    IN [k \in {f \in DOMAIN b : ~empty(f)} |-> b[k]]

\* json.Marshal of Books
marshalJSON(bs) == [i \in 1..Len(bs) |-> marshalJSONBook(bs[i])]

\* An io.Writer is what it is (an http.ResponseWriter or not, failing or
\* not) and the calls it has received so far.
Writers == [isResponseWriter : BOOLEAN, fails : BOOLEAN, calls : {<< >>}]

HeaderSet(w, key, value) ==
    [w EXCEPT !.calls = @ \o <<[op |-> "Header.Set", key |-> key, value |-> value]>>]

\* a write that w accepts; a failing writer accepts nothing
Write(w, format, data) ==
    IF w.fails THEN w
    ELSE [w EXCEPT !.calls = @ \o <<[op |-> "Write", format |-> format, data |-> data]>>]

WriteErr(w) == IF w.fails THEN GoErr(<<"write: broken pipe">>) ELSE NilErr

errCantEncodeBooks(err) == GoErr(<<"Couldn't encode the books: ">> \o err.msg)

\* notification: Report, Ok, ToError; the Errors are a sequence
Report(n, err) == Append(n, err)

Ok(n) == Len(n) = 0

\* errors.Error: the messages, joined
ToError(n) ==
    IF Ok(n) THEN NilErr
    ELSE GoErr(<<"Multiple errors: ">> \o Join([i \in 1..Len(n) |-> n[i].msg], <<"\n\t">>))

\* csv.NewWriter(writer): a bufio.Writer over writer, nothing buffered, no
\* error yet
NewWriter(w) == [w |-> w, buf |-> << >>, err |-> NilErr]

\* bufio.Writer.Flush, as csv.Writer.Flush calls it: the error sticks
Flush(cw) ==
    IF cw.err # NilErr \/ cw.buf = << >> THEN cw
    ELSE IF cw.w.fails THEN [cw EXCEPT !.err = WriteErr(cw.w)]
    ELSE [cw EXCEPT !.w = Write(cw.w, "csv", cw.buf), !.buf = << >>]

\* csv.Writer.Write of one record into a buffer with room for `room` records:
\* a full buffer is flushed first, and after an error nothing is taken
csvWrite(cw, record, room) ==
    IF cw.err # NilErr THEN cw
    ELSE IF Len(cw.buf) < room THEN [cw EXCEPT !.buf = Append(@, record)]
    ELSE LET flushed == Flush(cw)
         IN IF flushed.err # NilErr THEN flushed
            ELSE [flushed EXCEPT !.buf = <<record>>]

\* the running state of EncodeCSV: the csv.Writer, the notification, and for
\* the record what was passed to Write and what each Write returned
Encoding(w) == [cw |-> NewWriter(w), n |-> << >>, attempts |-> << >>, returned |-> << >>]

writeRecord(e, record, room) ==
    LET cw == csvWrite(e.cw, record, room)
    IN [cw |-> cw,
        n |-> IF cw.err # NilErr THEN Report(e.n, cw.err) ELSE e.n,
        attempts |-> Append(e.attempts, record),
        returned |-> Append(e.returned, cw.err)]

\* a slip: return at the first record that fails
RECURSIVE writeRecords_UntilFailure(_, _, _)
writeRecords_UntilFailure(e, records, room) ==
    IF records = << >> \/ e.cw.err # NilErr THEN e
    ELSE writeRecords_UntilFailure(writeRecord(e, Head(records), room), Tail(records), room)

\* EncodeCSV: for _, record := range records
RECURSIVE writeRecords(_, _, _)
writeRecords(e, records, room) ==
    IF records = << >> THEN e
    ELSE writeRecords(writeRecord(e, Head(records), room), Tail(records), room)

\* Books.EncodeCSV over a buffer with room for `room` records
EncodeCSVBuffered(bs, w, room) ==
    LET e == writeRecords(Encoding(w), marshalCSV(bs), room)
        cw == Flush(e.cw)
        n == IF cw.err # NilErr THEN Report(e.n, cw.err) ELSE e.n
    IN [w |-> cw.w, err |-> ToError(n),
        attempts |-> e.attempts, returned |-> e.returned, flushed |-> cw.err, Errors |-> n]

\* Books.EncodeCSV of a few short rows: the buffer takes them all, and they
\* reach the writer at Flush
EncodeCSV(bs, w) ==
    LET enc == EncodeCSVBuffered(bs, w, Len(bs) + 1)
    IN [w |-> enc.w, err |-> enc.err]

\* Books.EncodeJSON
EncodeJSON(bs, w) == [w |-> Write(w, "json", marshalJSON(bs)), err |-> WriteErr(w)]

encodeBooksAsJSON(books, w) ==
    LET rw == IF w.isResponseWriter
              THEN HeaderSet(w, "Content-Type", <<"application/json;charset=utf-8">>)
              ELSE w
        enc == EncodeJSON(books, rw)
    IN [via |-> "encodeBooksAsJSON", w |-> enc.w,
        err |-> IF enc.err.kind # "nil" THEN errCantEncodeBooks(enc.err) ELSE NilErr]

encodeBooksAsCSV(books, w) ==
    LET rw == IF w.isResponseWriter
              THEN HeaderSet(w, "Content-Type", <<"text/csv;charset=utf-8">>)
              ELSE w
        enc == EncodeCSV(books, rw)
    IN [via |-> "encodeBooksAsCSV", w |-> enc.w,
        err |-> IF enc.err.kind # "nil" THEN errCantEncodeBooks(enc.err) ELSE NilErr]

\* a slip: case "application/csv" does not fall through
encodeBooks_NoFallthrough(books, w, contentType) ==
    IF contentType = <<"text/csv">> THEN encodeBooksAsCSV(books, w)
    ELSE encodeBooksAsJSON(books, w)

\* encodeBooks, from the content type httputil.NegotiateContentType returned
encodeBooks(books, w, contentType) ==
    CASE contentType = <<"application/json">> -> encodeBooksAsJSON(books, w)
      [] contentType = <<"application/csv">> -> encodeBooksAsCSV(books, w)
      [] contentType = <<"text/csv">> -> encodeBooksAsCSV(books, w)
      [] OTHER -> encodeBooksAsJSON(books, w)

\* the three offers of the negotiation (the first is also its default), and
\* a type it was not offered
-----------------------------------------------------------------------------
(* main: a volume of the Books API becomes a Book *)

\* Titles are spelt byte by byte, so that suffixes and slices are computed.
Titles ==
    {<< >>,
     <<"a">>,
     <<".", "p", "d", "f">>,
     <<"a", "p", "d", "f">>,
     <<"a", ".", "p", "d", "f">>,
     <<"a", ".", "P", "D", "F">>,
     <<"a", ".", "e", "p", "u", "b">>,
     <<"a", ".", "E", "p", "u", "b">>,
     <<"a", ".", "p", "d", "f", ".", "e", "p", "u", "b">>,
     <<"a", ".", "e", "p", "u", "b", ".", "p", "d", "f">>}

SomeIdentifiers ==
    {[Type |-> <<"ISBN_13">>, Identifier |-> <<"9780441013593">>],
     [Type |-> <<"ISBN_10">>, Identifier |-> <<"0441013597">>],
     [Type |-> <<"OTHER">>, Identifier |-> << >>]}

MaxIdentifiers == 2

IdentifierLists == UNION {[1..n -> SomeIdentifiers] : n \in 0..MaxIdentifiers}

\* books.Volume, as far as newBook reads it; AccessInfo.Pdf and .Epub say
\* whether that pointer is set
Volumes ==
    [Title : Titles, Authors : {<< <<"Frank Herbert">> >>},
     IndustryIdentifiers : IdentifierLists,
     AverageRating : {450}, Publisher : {<<"Ace">>},
     AccessInfo : [Pdf : BOOLEAN, Epub : BOOLEAN]]

\* strings.ToLower, on the letters the titles are spelt with
ToLowerByte(c) ==
    CASE c = "P" -> "p" [] c = "D" -> "d" [] c = "F" -> "f"
      [] c = "E" -> "e" [] c = "U" -> "u" [] c = "B" -> "b"
      [] c = "A" -> "a" [] OTHER -> c

ToLower(str) == [i \in 1..Len(str) |-> ToLowerByte(str[i])]

\* strings.HasSuffix
HasSuffix(str, suffix) ==
    /\ Len(str) >= Len(suffix)
    /\ SubSeq(str, Len(str) - Len(suffix) + 1, Len(str)) = suffix

dotPdf == <<".", "p", "d", "f">>
dotEpub == <<".", "e", "p", "u", "b">>

\* a slip: the first identifier, with a value or without
firstIdentifier_Head(identifiers) ==
    IF identifiers = << >> THEN [id |-> << >>, idType |-> << >>]
    ELSE [id |-> Head(identifiers).Identifier, idType |-> Head(identifiers).Type]

\* newBook: the first identifier that has a value
RECURSIVE firstIdentifier(_)
firstIdentifier(identifiers) ==
    IF identifiers = << >> THEN [id |-> << >>, idType |-> << >>]
    ELSE IF Head(identifiers).Identifier = << >> THEN firstIdentifier(Tail(identifiers))
    ELSE [id |-> Head(identifiers).Identifier, idType |-> Head(identifiers).Type]

\* newBook: the file type
fileTypeOf(v) ==
    IF v.AccessInfo.Pdf THEN <<"PDF">>
    ELSE IF v.AccessInfo.Epub THEN <<"EPUB">>
    ELSE <<"UNKNOWN">>

\* a slip: the extension goes whatever the file type
titleOf_AnyFileType(title, fileType) ==
    IF HasSuffix(ToLower(title), dotPdf) THEN SubSeq(title, 1, Len(title) - 4)
    ELSE IF HasSuffix(ToLower(title), dotEpub) THEN SubSeq(title, 1, Len(title) - 5)
    ELSE title

\* newBook: removing the extension from the title if it's there
titleOf(title, fileType) ==
    IF HasSuffix(ToLower(title), dotPdf) /\ fileType = <<"PDF">>
    THEN SubSeq(title, 1, Len(title) - 4)
    ELSE IF HasSuffix(ToLower(title), dotEpub) /\ fileType = <<"EPUB">>
    THEN SubSeq(title, 1, Len(title) - 5)
    ELSE title

newBook(v) ==
    LET first == firstIdentifier(v.IndustryIdentifiers)
    IN [Title |-> titleOf(v.Title, fileTypeOf(v)),
        Authors |-> v.Authors,
        Identifier |-> first.id,
        IdentifierType |-> first.idType,
        AverageRating |-> v.AverageRating,
        Publisher |-> v.Publisher,
        FileType |-> fileTypeOf(v)]

ContentTypes ==
    {<<"application/json">>, <<"text/csv">>, <<"application/csv">>, <<"text/html">>}

-----------------------------------------------------------------------------
(* package app: routers, and the mux of main *)

Prefixes == {<<"/google">>, <<"/amazon">>, << >>}
RoutePaths == {<< >>, <<"/">>, <<"/connect">>, <<"/disconnect">>, <<"/oauth2callback">>}

RouterBooks(router) == Route(router, << >>)
RouterConnect(router) == Route(router, <<"/connect">>)
RouterDisconnect(router) == Route(router, <<"/disconnect">>)

\* main: the patterns registered with the mux, and their handlers
MuxRoutes(router) ==
    {[pattern |-> <<"/">>, handler |-> "showEndpoints"],
     [pattern |-> RouterBooks(router), handler |-> "HandleBooks"],
     [pattern |-> RouterConnect(router), handler |-> "HandleConnect"],
     [pattern |-> RouterDisconnect(router), handler |-> "HandleDisconnect"],
     [pattern |-> RouterOAuthCallback(router), handler |-> "HandleOAuthCallback"]}

\* what an error, or none, is wrapped from; the statuses to wrap under
WrapErrors ==
    {NilErr}
    \cup {GoErr(m) : m \in {<<"unexpected EOF">>, << >>}}
    \cup {[kind |-> "appError", Message |-> m, Status |-> st] :
            m \in {<<"Code not found.">>, << >>}, st \in {400, 404}}
WrapStatuses == {401, 500}

\* an app.Handler function that writes "ok" or returns Wrap(err, status)
WrappingHandler(err, status) ==
    Outcome("fn", Wrap(err, status),
            IF err.kind = "nil" THEN Fprintln(<<"ok">>) ELSE NoWrite,
            << >>, EmptyValues, << >>)

-----------------------------------------------------------------------------
(* The functions on their own: pure is the last application *)

\* the variables no function application touches
serving == <<cookie, configRedirectURL, now, googleRedirectURL, revision, resp, script,
             inflight, issued, paging>>

ApplyEncodeBooks ==
    \E contentType \in ContentTypes, books \in BookLists, w \in Writers :
        /\ pure' = [fn |-> "encodeBooks",
                    args |-> [contentType |-> contentType, books |-> books, w |-> w],
                    result |-> encodeBooks(books, w, contentType)]
        /\ UNCHANGED serving

ApplyWrap ==
    \E err \in WrapErrors, status \in WrapStatuses :
        /\ pure' = [fn |-> "Wrap",
                    args |-> [err |-> err, status |-> status],
                    result |-> [appErr |-> Wrap(err, status),
                                http |-> ServeHTTP(WrappingHandler(err, status))]]
        /\ UNCHANGED serving

ApplyRoute ==
    \E router \in Prefixes, path \in RoutePaths :
        /\ pure' = [fn |-> "Route",
                    args |-> [router |-> router, path |-> path],
                    result |-> Route(router, path)]
        /\ UNCHANGED serving

ApplyOAuthCallback ==
    \E router \in Prefixes :
        /\ pure' = [fn |-> "OAuthCallback",
                    args |-> [router |-> router],
                    result |-> [endpoint |-> RouterOAuthCallback(router),
                                mux |-> MuxRoutes(router)]]
        /\ UNCHANGED serving

ApplyBuildRedirectURL ==
    \E router \in Prefixes, r \in ConnectRequests :
        /\ pure' = [fn |-> "BuildRedirectURL",
                    args |-> [router |-> router, r |-> r],
                    result |-> buildRedirectURL(r, router)]
        /\ UNCHANGED serving

ApplyNewBook ==
    \E v \in Volumes :
        /\ pure' = [fn |-> "newBook", args |-> [v |-> v], result |-> newBook(v)]
        /\ UNCHANGED serving

\* EncodeCSV, for buffers that take one record or more before they spill
ApplyEncodeCSV ==
    \E books \in BookLists, w \in Writers, room \in 1..(MaxBooks + 1) :
        /\ pure' = [fn |-> "EncodeCSV",
                    args |-> [books |-> books, w |-> w, room |-> room],
                    result |-> EncodeCSVBuffered(books, w, room)]
        /\ UNCHANGED serving

PureNext ==
    \/ ApplyEncodeBooks
    \/ ApplyEncodeCSV
    \/ ApplyNewBook
    \/ ApplyWrap
    \/ ApplyRoute
    \/ ApplyOAuthCallback
    \/ ApplyBuildRedirectURL

PureSpec == Init /\ [][PureNext]_vars

\* C17: the books are rendered as CSV exactly when the negotiated content
\* type is text/csv or application/csv, and as JSON otherwise; on an
\* http.ResponseWriter the Content-Type header is set, to the CSV or the JSON
\* type accordingly, before anything is written to the body.
C17_EncodingFollowsContentType ==
    pure.fn = "encodeBooks"
        => LET a == pure.args
               calls == pure.result.w.calls
               csv == a.contentType \in {<<"text/csv">>, <<"application/csv">>}
               written == {i \in 1..Len(calls) : calls[i].op = "Write"}
               headers == {i \in 1..Len(calls) : calls[i].op = "Header.Set"}
           IN /\ pure.result.via = (IF csv THEN "encodeBooksAsCSV" ELSE "encodeBooksAsJSON")
              /\ \A i \in written :
                    /\ calls[i].format = (IF csv THEN "csv" ELSE "json")
                    /\ calls[i].data = (IF csv THEN marshalCSV(a.books) ELSE marshalJSON(a.books))
              /\ ~a.w.fails => (written # {} /\ pure.result.err = NilErr)
              /\ a.w.fails => (written = {} /\ pure.result.err.kind = "error")
              /\ a.w.isResponseWriter
                    => /\ headers = {1}
                       /\ calls[1].key = "Content-Type"
                       /\ calls[1].value = (IF csv THEN <<"text/csv;charset=utf-8">>
                                            ELSE <<"application/json;charset=utf-8">>)
              /\ ~a.w.isResponseWriter => headers = {}

C17_Witness ==
    /\ pure.fn = "encodeBooks"
    /\ pure.args.contentType = <<"application/csv">>
    /\ pure.args.w.isResponseWriter /\ ~pure.args.w.fails
    /\ Len(pure.args.books) = MaxBooks
    /\ Len(pure.result.w.calls) = 2
    /\ pure.result.w.calls[2].format = "csv"

\* C18: Wrap(nil, status) is nil; Wrap of an *Error is that *Error, whatever
\* the status; Wrap of any other error is an Error with the error's text and
\* the given status. When the wrapped function returns a non-nil Error, the
\* handler answers with that Error's Status and its Message.
C18_WrapAndServe ==
    pure.fn = "Wrap"
        => LET err == pure.args.err
               appErr == pure.result.appErr
           IN /\ err.kind = "nil" => appErr = [kind |-> "nil"]
              /\ err.kind = "appError" => appErr = err
              /\ err.kind = "error"
                    => appErr = [kind |-> "appError", Message |-> err.msg,
                                 Status |-> pure.args.status]
              /\ appErr.kind = "nil" => pure.result.http = Fprintln(<<"ok">>)
              /\ appErr.kind # "nil"
                    => /\ pure.result.http.status = appErr.Status
                       /\ pure.result.http.body = appErr.Message \o <<"\n">>

C18_Witness ==
    /\ pure.fn = "Wrap"
    /\ pure.args.err.kind = "appError"
    /\ pure.args.err.Status = 404
    /\ pure.args.status = 500
    /\ pure.result.http.status = 404

-----------------------------------------------------------------------------
(* Requests served at the same time. Each goroutine serves one request in
   steps that touch what the requests share: the cookie the browser sends
   with the request and receives with the response, and the RedirectURL
   field of the one *oauth2.Config, which HandleConnect writes and
   AuthCodeURL and Exchange read with no synchronisation. *)

\* what an unsynchronised read or write of the string can leave besides one
\* of the two values: the data of one with the length of the other
TornString == <<"<torn>">>

\* The requests that race: connects from two hosts, callbacks that bring a
\* code and no error, with a state the server issued or none; the provider
\* grants one token or fails.
ConcConnectRequests == {r \in ConnectRequests : r.scheme = << >>}
ConcCallbackForms == {f \in CallbackForms : f.error = << >> /\ f.code # << >>}
ConcExchangeOutcomes ==
    {o \in ExchangeOutcomes : o.ok => o.token.AccessToken = <<"tok_xyz">>}

Serving(g, handler, pc) == inflight[g].pc = pc /\ inflight[g].handler = handler

\* the redirect URLs other goroutines are about to write
RacingWrites(g) ==
    {ConnectRedirectURL(googleRedirectURL, inflight[h].req) :
        h \in {k \in Slots \ {g} : Serving(k, "connect", "write")}}

\* what a read of config.RedirectURL by g can give
ConfigReads(g) ==
    {configRedirectURL}
    \cup (IF \E v \in RacingWrites(g) : v # configRedirectURL THEN {TornString} ELSE {})

\* what config.RedirectURL can hold after g writes v
ConfigWrites(g, v) ==
    {v} \cup (IF \E u \in RacingWrites(g) : u # v THEN {TornString} ELSE {})

\* A request being served: its cookie, the clock its handler read, the
\* authorization redirect its browser had followed when it sent a callback.
Request(pc, handler, s, req, out) ==
    [pc |-> pc, handler |-> handler, session |-> s, req |-> req,
     values |-> cookie[s], t |-> now,
     flow |-> IF handler = "callback" THEN issued[s] ELSE NoFlow, out |-> out]

\* the goroutines are interchangeable: a request takes the first free one
FirstFree(g) == inflight[g] = Idle /\ (g = "g2" => inflight["g1"] # Idle)

Concurrently(g, request) ==
    /\ inflight' = [inflight EXCEPT ![g] = request]
    /\ UNCHANGED <<now, googleRedirectURL, revision, resp, script, pure, paging>>

\* HandleConnect up to session.Save: the session is the cookie sent with
\* the request, the state is generated from the clock
BeginConnect(g) ==
    /\ FirstFree(g)
    /\ \E s \in Sessions, r \in ConcConnectRequests :
           Concurrently(g,
               IF ConnectAlreadyConnected(cookie[s])
               THEN Request("respond", "connect", s, r,
                            ConnectOutcome(cookie[s], configRedirectURL, googleRedirectURL,
                                           r, now, configRedirectURL))
               ELSE Request("write", "connect", s, r, NoOutcome))
    /\ UNCHANGED <<cookie, configRedirectURL, issued>>

\* HandleConnect: config.RedirectURL = redirectURL
ConnectWrite(g) ==
    /\ Serving(g, "connect", "write")
    /\ configRedirectURL'
          \in ConfigWrites(g, ConnectRedirectURL(googleRedirectURL, inflight[g].req))
    /\ Concurrently(g, [inflight[g] EXCEPT !.pc = "read"])
    /\ UNCHANGED <<cookie, issued>>

\* HandleConnect: config.AuthCodeURL(state); http.Redirect
ConnectRead(g) ==
    /\ Serving(g, "connect", "read")
    /\ \E read \in ConfigReads(g) :
           Concurrently(g, [inflight[g] EXCEPT
               !.pc = "respond",
               !.out = ConnectOutcome(inflight[g].values, configRedirectURL,
                                      googleRedirectURL, inflight[g].req, inflight[g].t, read)])
    /\ UNCHANGED <<cookie, configRedirectURL, issued>>

\* HandleOAuthCallback up to config.Exchange: the three checks read only
\* the request and its cookie
BeginCallback(g) ==
    /\ FirstFree(g)
    /\ \E s \in Sessions, form \in ConcCallbackForms :
           LET probe == HandleOAuthCallback(revision, cookie[s], configRedirectURL, form,
                                            CHOOSE o \in ConcExchangeOutcomes : TRUE)
           IN Concurrently(g,
                  IF probe.exchanges = << >>
                  THEN Request("respond", "callback", s, form, probe)
                  ELSE Request("exchange", "callback", s, form, NoOutcome))
    /\ UNCHANGED <<cookie, configRedirectURL, issued>>

\* HandleOAuthCallback: config.Exchange(ctx, code), which sends the config's
\* RedirectURL to the provider, and what follows it
CallbackExchange(g) ==
    /\ Serving(g, "callback", "exchange")
    /\ \E read \in ConfigReads(g), exch \in ConcExchangeOutcomes :
           Concurrently(g, [inflight[g] EXCEPT
               !.pc = "respond",
               !.out = HandleOAuthCallback(revision, inflight[g].values, read,
                                           inflight[g].req, exch)])
    /\ UNCHANGED <<cookie, configRedirectURL, issued>>

\* the redirect_uri of an authorization URL; "" when it has none
RedirectURIOf(url) ==
    IF "redirect_uri" \in DOMAIN url.query THEN url.query["redirect_uri"] ELSE << >>

\* The response reaches the browser: it keeps the cookie the response sets,
\* and follows an authorization redirect.
Respond(g) ==
    /\ inflight[g] # Idle
    /\ inflight[g].pc = "respond"
    /\ LET request == inflight[g]
           s == request.session
       IN /\ cookie' = [cookie EXCEPT ![s] = Persist(cookie[s], request.out.saved)]
          /\ issued' = IF request.handler = "connect" /\ request.out.via = "redirect"
                       THEN [issued EXCEPT ![s] =
                               [state |-> request.out.w.location.query["state"],
                                redirect_uri |-> RedirectURIOf(request.out.w.location)]]
                       ELSE issued
    /\ Concurrently(g, Idle)
    /\ UNCHANGED configRedirectURL

\* The requests race within one reading of the clock.
ConcNext ==
    \/ \E g \in Slots : BeginConnect(g)
    \/ \E g \in Slots : ConnectWrite(g)
    \/ \E g \in Slots : ConnectRead(g)
    \/ \E g \in Slots : BeginCallback(g)
    \/ \E g \in Slots : CallbackExchange(g)
    \/ \E g \in Slots : Respond(g)

\* the googleProvider revision, with no GOOGLE_REDIRECT_URL: every connect
\* resolves its redirect URL from its own request
ConcInit == Init /\ revision = "googleProvider" /\ googleRedirectURL = << >>

ConcSpec == ConcInit /\ [][ConcNext]_vars

\* g has served a callback and holds its response
CallbackServed(g) == inflight[g] # Idle /\ Serving(g, "callback", "respond")

\* two callbacks in flight at once that carry the same cookie and the same state
SameCallbackTwice(a, b) ==
    /\ a # b
    /\ CallbackServed(a) /\ CallbackServed(b)
    /\ inflight[a].session = inflight[b].session
    /\ inflight[a].values = inflight[b].values
    /\ inflight[a].req.state = inflight[b].req.state
    /\ HoldsState(inflight[a].values)

PassedStateCheck(g) == inflight[g].out.via # "errInvalidState"

\* C21 (as claimed): of two concurrent callbacks that carry the same cookie
\* and the same state, at most one passes the state check, and at most one
\* token exchange is made.
C21_StateValidatedOnce ==
    \A a, b \in Slots :
        SameCallbackTwice(a, b)
            => /\ ~(PassedStateCheck(a) /\ PassedStateCheck(b))
               /\ Len(inflight[a].out.exchanges) + Len(inflight[b].out.exchanges) <= 1

\* C22 (as claimed): the redirect URL a callback sends with the token
\* exchange is the redirect_uri of the authorization URL its session's browser
\* was sent to, whatever connects were served in between.
C22_ExchangeRedirectMatchesFlow ==
    \A g \in Slots :
        (/\ CallbackServed(g)
         /\ inflight[g].out.exchanges # << >>
         /\ inflight[g].flow.state = inflight[g].req.state)
            => inflight[g].out.exchanges[1].redirect_uri = inflight[g].flow.redirect_uri

\* g is writing, or has written and is about to read
ConnectResolved(g) == ConnectRedirectURL(googleRedirectURL, inflight[g].req)

-----------------------------------------------------------------------------
\* C24 (as claimed): whatever a handler changes in the session's Values is
\* saved before it returns: the Values in memory when the handler returns are
\* the ones of its last Save, or the ones it loaded if it never saved.
C24_EveryMutationSaved ==
    resp.handler # "none" => resp.out.memory = Persist(resp.pre, resp.out.saved)

\* a callback with a code and no error, carrying the given state
CallbackCarrying(state) == [state |-> state, error |-> << >>, code |-> <<"ABC123">>]

\* what the state check of a callback carrying that state would decide on
\* the given cookie
WouldPassStateCheck(values, state) ==
    \A exch \in ExchangeOutcomes :
        HandleOAuthCallback(revision, values, configRedirectURL,
                            CallbackCarrying(state), exch).via # "errInvalidState"

\* s, holding a pending state, is sent into a second flow
SecondConnect(s) ==
    /\ resp' # resp
    /\ resp'.handler = "connect" /\ resp'.session = s /\ resp'.out.via = "redirect"
    /\ HoldsState(cookie[s])

\* C25 (as claimed): when a session with a pending state s1 connects again
\* and is issued s2, it holds s2 only; a callback carrying s1 fails the state
\* check and one carrying s2 passes it.
C25_OnePendingFlow ==
    [][\A s \in Sessions :
         SecondConnect(s)
            => LET s1 == AsString(Lookup(cookie[s], "state"))
                   s2 == resp'.http.location.query["state"]
               IN /\ Lookup(cookie'[s], "state") = GoString(s2)
                  /\ ~WouldPassStateCheck(cookie'[s], s1)
                  /\ WouldPassStateCheck(cookie'[s], s2)]_vars

\* the session's state check fails for this callback
StateCheckFails(r) ==
    \/ ~IsString(Lookup(r.pre, "state"))
    \/ r.req.state # AsString(Lookup(r.pre, "state"))

\* C26: a callback's checks are made in a fixed order and the first that
\* fails decides: InvalidState if the state check fails, whatever error and
\* code are; else CallbackError if error is not empty; else MissingCode if code
\* is empty; else the exchange is called once and gives ExchangeFailed when it
\* fails and the redirect when it succeeds. No exchange is called otherwise.
C26_ChecksInOrder ==
    resp.handler = "callback"
        => LET reached == ~StateCheckFails(resp) /\ resp.req.error = << >>
                            /\ resp.req.code # << >>
           IN /\ resp.out.via =
                    (IF StateCheckFails(resp) THEN "errInvalidState"
                     ELSE IF resp.req.error # << >> THEN "errCallbackError"
                     ELSE IF resp.req.code = << >> THEN "errCodeNotFound"
                     ELSE IF ~resp.out.exchanges[1].answer.ok THEN "errTokenExchangeError"
                     ELSE "redirect")
              /\ Len(resp.out.exchanges) = (IF reached THEN 1 ELSE 0)
              /\ resp.out.via = "errInvalidState"
                    => resp.http.body
                         = <<"Invalid state parameter: expected ">>
                             \o AsString(Lookup(resp.pre, "state"))
                             \o <<"; got ">> \o resp.req.state \o <<"\n">>
              /\ resp.out.via = "errCallbackError"
                    => resp.http.body = <<"Callback received error: ">> \o resp.req.error \o <<"\n">>
              /\ resp.out.via = "errCodeNotFound" => resp.http.body = <<"Code not found.", "\n">>
              /\ resp.out.via = "errTokenExchangeError" => resp.http.status = 500
              /\ resp.out.via = "redirect" => resp.http.status = 307

\* the state is right, and error and code are both there: CallbackError
C26_Witness ==
    /\ resp.handler = "callback"
    /\ ~StateCheckFails(resp)
    /\ resp.req.error # << >> /\ resp.req.code # << >>
    /\ resp.out.via = "errCallbackError"

\* the provider call of the last request failed
ExchangeFailed(r) == r.out.exchanges # << >> /\ ~r.out.exchanges[1].answer.ok
RevokeFailed(r) == r.out.revokes # << >> /\ ~RevokeSucceeded(r)

\* C27 (as claimed): a callback calls the exchange at most once and a
\* disconnect calls the revocation at most once; a call that failed is
\* answered with that request's error response.
C27_NoRetryFailureReturned ==
    /\ Len(resp.out.exchanges) <= 1
    /\ Len(resp.out.revokes) <= 1
    /\ ExchangeFailed(resp)
          => /\ resp.out.via = "errTokenExchangeError"
             /\ resp.http.status = 500
    /\ RevokeFailed(resp)
          => /\ resp.out.via = "errCantRevokeToken"
             /\ resp.http.status = 500

\* the step is a request of session s
Served(s) == resp' # resp /\ resp'.session = s

\* C28: when HandleBooks calls the listing, the bearer token is the
\* accessToken of the request's cookie; and that value got into the cookie in
\* a successful callback of that session, as the token the exchange returned,
\* and leaves it only in a disconnect.
C28_BearerIsSessionToken ==
    [][\A s \in Sessions :
         LET old == Lookup(cookie[s], "accessToken")
             new == Lookup(cookie'[s], "accessToken")
         IN /\ (resp'.handler = "books" /\ resp'.out.lists # << >>)
                  => /\ Len(resp'.out.lists) = 1
                     /\ IsString(Lookup(resp'.pre, "accessToken"))
                     /\ resp'.out.lists[1].bearer = AsString(Lookup(resp'.pre, "accessToken"))
            /\ (Served(s) /\ resp'.handler = "books") => resp'.pre = cookie[s]
            /\ (new # old /\ IsString(new))
                  => /\ Served(s) /\ resp'.handler = "callback" /\ resp'.out.via = "redirect"
                     /\ new = GoString(resp'.out.exchanges[1].answer.token.AccessToken)
            /\ (new # old /\ ~IsString(new))
                  => /\ Served(s) /\ resp'.handler = "disconnect"
                     /\ resp'.out.via = "disconnected"]_vars

\* the listing is called with the token of the session's second flow
C28_Witness ==
    /\ resp.handler = "books"
    /\ resp.out.lists # << >>
    /\ resp.out.lists[1].bearer = <<"tok_abc">>
    /\ "state" \in DOMAIN resp.pre
    /\ resp.pre["accessToken"] = GoString(<<"tok_abc">>)

\* C29 (as claimed): no persisted session holds a state and an accessToken
\* at once.
C29_StateAndTokenExclusive ==
    \A s \in Sessions : ~(HoldsState(cookie[s]) /\ HoldsToken(cookie[s]))

\* C30 (as claimed): the persisted accessToken of a session is set by a
\* callback of the session whose exchange succeeds, to the exchanged token,
\* cleared by a disconnect of the session whose revocation succeeds, and left
\* as it is by every other request.
C30_TokenFrame ==
    [][\A s \in Sessions :
         LET old == Lookup(cookie[s], "accessToken")
             new == Lookup(cookie'[s], "accessToken")
             granted == Served(s) /\ resp'.handler = "callback" /\ resp'.out.via = "redirect"
             revoked == Served(s) /\ resp'.handler = "disconnect" /\ RevokeSucceeded(resp')
         IN /\ granted => new = GoString(resp'.out.exchanges[1].answer.token.AccessToken)
            /\ revoked => ~IsString(new)
            /\ (~granted /\ ~revoked) => new = old]_vars

-----------------------------------------------------------------------------
\* the client got one answer: a body with status 200, a redirect, or an error
OneAnswer(r) ==
    /\ ~r.out.aborted
    /\ \/ r.http.status = 200 /\ r.out.err = NilErr /\ r.http.location = NoURL
       \/ r.http.status = 307 /\ r.out.err = NilErr /\ r.http.location # NoURL
       \/ /\ r.out.err # NilErr
          /\ r.http.status = r.out.err.Status
          /\ r.http.body = r.out.err.Message \o <<"\n">>

\* C31 (as claimed): every request to a handler is answered, with a success
\* body, a redirect or an error's status and message, whatever the provider
\* calls give; no handler aborts without an answer.
C31_EveryRequestAnswered ==
    resp.handler # "none" => OneAnswer(resp)

\* the state of the authorization redirect a connect has just answered
IssuedState(r) == r.http.location.query["state"]

\* C32 (as claimed): the state a connect issues differs from every state the
\* server issued before: it equals no state pending in any session.
C32_StateIsFresh ==
    [][\A s \in Sessions :
         (Served(s) /\ resp'.handler = "connect" /\ resp'.out.via = "redirect")
            => \A o \in Sessions :
                   HoldsState(cookie[o])
                       => AsString(Lookup(cookie[o], "state")) # IssuedState(resp')]_vars

-----------------------------------------------------------------------------
\* str ends in the extension ext, in whatever case it is written
EndsWithExtension(str, ext) ==
    \E stem, tail \in {SubSeq(str, i, j) : i \in 1..(Len(str) + 1), j \in 0..Len(str)} :
        str = stem \o tail /\ ToLower(tail) = ext

C36_FirstIdentifierWithValue ==
    pure.fn = "newBook" =>
        LET ids == pure.args.v.IndustryIdentifiers
            b == pure.result
            valued == {i \in 1..Len(ids) : ids[i].Identifier # << >>}
        IN IF valued = {}
           THEN b.Identifier = << >> /\ b.IdentifierType = << >>
           ELSE \E i \in valued :
                    /\ \A j \in valued : i <= j
                    /\ b.Identifier = ids[i].Identifier
                    /\ b.IdentifierType = ids[i].Type

\* an identifier without a value was passed over for the one after it
C36_Witness ==
    /\ pure.fn = "newBook"
    /\ Len(pure.args.v.IndustryIdentifiers) = 2
    /\ pure.args.v.IndustryIdentifiers[1].Identifier = << >>
    /\ pure.result.Identifier = <<"0441013597">>
    /\ pure.result.IdentifierType = <<"ISBN_10">>

-----------------------------------------------------------------------------
\* the records the writer accepted, in the order they reached it
RECURSIVE Accepted(_)
Accepted(calls) ==
    IF calls = << >> THEN << >>
    ELSE IF Head(calls).op = "Write" THEN Head(calls).data \o Accepted(Tail(calls))
    ELSE Accepted(Tail(calls))

\* C37: the CSV of n books is n + 1 rows: the header (Title, Author, ISBN,
\* My Rating, Average Rating, Publisher), then a row of six columns for each
\* book, in the list's order, whose My Rating is empty. EncodeCSV passes
\* every row to Write, also after a row failed, and returns nil exactly when
\* no Write and no Flush reported an error.
C37_CSVRowsAndErrors ==
    pure.fn = "EncodeCSV" =>
        LET bs == pure.args.books
            r == pure.result
            rows == r.attempts
        IN /\ Len(rows) = Len(bs) + 1
           /\ rows[1] = << <<"Title">>, <<"Author">>, <<"ISBN">>, <<"My Rating">>,
                           <<"Average Rating">>, <<"Publisher">> >>
           /\ \A i \in 1..Len(bs) :
                  /\ Len(rows[i + 1]) = 6
                  /\ rows[i + 1][1] = bs[i].Title
                  /\ rows[i + 1][2] = Join(bs[i].Authors, <<", ">>)
                  /\ rows[i + 1][3] = bs[i].Identifier
                  /\ rows[i + 1][4] = << >>
                  /\ rows[i + 1][5] = Sprintf2f(bs[i].AverageRating)
                  /\ rows[i + 1][6] = bs[i].Publisher
           /\ Len(r.returned) = Len(rows)
           /\ r.err = NilErr
                  <=> /\ \A i \in 1..Len(r.returned) : r.returned[i] = NilErr
                      /\ r.flushed = NilErr
           /\ r.err = NilErr => Accepted(r.w.calls) = rows

\* the first book's row failed when the buffer spilled, and the second
\* book's row was passed to Write all the same
C37_Witness ==
    /\ pure.fn = "EncodeCSV"
    /\ Len(pure.args.books) = 2
    /\ pure.result.returned[1] = NilErr
    /\ pure.result.returned[2] # NilErr
    /\ Len(pure.result.attempts) = 3
    /\ pure.result.attempts[3][1] = pure.args.books[2].Title
    /\ pure.result.err # NilErr

-----------------------------------------------------------------------------
(* getGoogleBooks, one request for a page at a time *)

MaxItems == 3
MaxPage == 2

\* the volumes the provider's pages are made of
PageVolumes ==
    {v \in Volumes :
        /\ v.IndustryIdentifiers = << >>
        /\ \/ v.Title = <<"a", ".", "p", "d", "f">> /\ v.AccessInfo = [Pdf |-> TRUE, Epub |-> FALSE]
           \/ v.Title = <<"a">> /\ v.AccessInfo = [Pdf |-> FALSE, Epub |-> FALSE]}

\* volumes.Items of one page
PageItems == UNION {[1..n -> PageVolumes] : n \in 0..MaxPage}

NoPage == [ok |-> TRUE, StartIndex |-> 0, Items |-> << >>, TotalItems |-> 0, err |-> NilErr]

\* a slip: the start index counts pages
advance_OnePerPage(nextIndex, items) == nextIndex + 1

\* nextIndex + int64(len(volumes.Items))
advance(nextIndex, items) == nextIndex + Len(items)

\* the variables getGoogleBooks does not touch
notPaging == <<cookie, configRedirectURL, now, googleRedirectURL, revision, resp, script,
               pure, inflight, issued>>

\* getGoogleBooks is called: no books yet, both counters zero. received is
\* a record of the items the provider has sent to this call, last of its
\* last answer, and round counts the requests, modulo two.
CallGetGoogleBooks ==
    /\ paging.pc \in {"idle", "returned"}
    /\ paging' = [pc |-> "request", myBooks |-> << >>, nextIndex |-> 0, totalItems |-> 0,
                  received |-> << >>, last |-> NoPage, round |-> 0]
    /\ UNCHANGED notPaging

\* one turn of the loop whose List().StartIndex(nextIndex).Do() succeeds
ListPage ==
    /\ paging.pc = "request"
    /\ \E items \in PageItems, total \in 0..MaxItems :
        /\ paging.nextIndex + Len(items) <= MaxItems
        /\ Len(paging.received) + Len(items) <= MaxItems
        /\ LET myBooks == paging.myBooks \o [i \in 1..Len(items) |-> newBook(items[i])]
               nextIndex == advance(paging.nextIndex, items)
               totalItems == total
               page == [ok |-> TRUE, StartIndex |-> paging.nextIndex, Items |-> items,
                        TotalItems |-> total, err |-> NilErr]
               received == paging.received \o items
               round == (paging.round + 1) % 2
           IN paging' =
                IF nextIndex >= totalItems
                THEN [pc |-> "returned", result |-> [books |-> myBooks, err |-> NilErr],
                      received |-> received, last |-> page, round |-> round]
                ELSE [pc |-> "request", myBooks |-> myBooks, nextIndex |-> nextIndex,
                      totalItems |-> totalItems,
                      received |-> received, last |-> page, round |-> round]
    /\ UNCHANGED notPaging

\* one turn of the loop whose request fails
ListFails ==
    /\ paging.pc = "request"
    /\ \E answer \in {a \in ListOutcomes : ~a.ok} :
        paging' = [pc |-> "returned",
                   result |-> [books |-> GoNil, err |-> errCantLoadVolumes(answer.err)],
                   received |-> paging.received,
                   last |-> [ok |-> FALSE, StartIndex |-> paging.nextIndex, Items |-> << >>,
                             TotalItems |-> 0, err |-> answer.err],
                   round |-> (paging.round + 1) % 2]
    /\ UNCHANGED notPaging

PagingNext ==
    \/ CallGetGoogleBooks
    \/ ListPage
    \/ ListFails

PagingSpec == Init /\ [][PagingNext]_vars

\* the goroutine that runs getGoogleBooks keeps running; what the provider
\* answers is not constrained
PagingFairSpec == PagingSpec /\ WF_vars(PagingNext)

\* C33: while every request succeeds, each page is requested with StartIndex
\* equal to the number of items received so far, the call returns after the
\* first page for which that number is at least the page's TotalItems, and
\* it returns the newBook of every item received, in order; when a request
\* fails it returns no books and an error wrapping the cause.
C33_Paging ==
    [][paging.pc = "request" /\ paging'.pc # "idle" =>
          LET page == paging'.last
          IN /\ page.StartIndex = Len(paging.received)
             /\ page.ok =>
                  /\ paging'.received = paging.received \o page.Items
                  /\ paging'.pc = "returned" <=> Len(paging'.received) >= page.TotalItems
                  /\ paging'.pc = "returned" =>
                        paging'.result =
                            [books |-> [i \in 1..Len(paging'.received) |->
                                            newBook(paging'.received[i])],
                             err |-> NilErr]
             /\ ~page.ok =>
                  /\ paging'.pc = "returned"
                  /\ paging'.result.books = GoNil
                  /\ paging'.result.err.kind = "error"
                  /\ Contains(paging'.result.err.msg, page.err.msg)]_vars

\* a call returned three books it received on more than one page
C33_Witness ==
    /\ paging.pc = "returned"
    /\ paging.result.err = NilErr
    /\ Len(paging.result.books) = 3
    /\ paging.last.StartIndex > 0
    /\ paging.last.Items # << >>
    /\ paging.result.books[1].Title # paging.received[1].Title

\* the call failed on a later page, items already received
C33_WitnessFailure ==
    /\ paging.pc = "returned"
    /\ paging.result.err # NilErr
    /\ paging.received # << >>

\* C34 (as claimed): a call of getGoogleBooks returns, whatever the provider
\* answers, also when a page succeeds without items while its TotalItems
\* exceeds the number of items received so far.
C34_Terminates ==
    (paging.pc = "request") ~> (paging.pc = "returned")

====
